---- MODULE Spec2Model ----
(***************************************************************************)
(* Subscription billing and proration engine of stylo.pe                   *)
(* (backend/apps/subscriptions): staff trial/billing lifecycle, monthly    *)
(* invoice generation with per-staff proration, payment processing and     *)
(* courtesy access, for one business "b1".                                 *)
(*                                                                         *)
(* Dates are proleptic Gregorian ordinals (datetime.date.toordinal()), so  *)
(* that comparison and subtraction of dates are integer operations.        *)
(* Money with 2 decimals is an integer number of cents; the 4-decimal      *)
(* daily rate is an integer number of 1/10000 currency units.              *)
(*                                                                         *)
(* Specifications:                                                         *)
(*   Spec        staff lifecycle and invoice generation from an empty      *)
(*               database;                                                 *)
(*   SpecCalc    calculate_active_days on drawn rows and periods;          *)
(*   SpecRate    invoice generation over drawn prices and month lengths;   *)
(*   SpecInvoice all invoice generators, two overlapping runners;          *)
(*   SpecPay     payment of an invoice by two overlapping workers;         *)
(*   SpecStatus  the subscription status of a business with an overdue     *)
(*               invoice;                                                  *)
(*   SpecMethods the payment methods of a business;                        *)
(*   SpecStaff   the staff subscriptions under all their writers;          *)
(*   SpecGateway payment by one worker under every gateway answer;         *)
(*   SpecBooking booking requests and the subscription status;             *)
(*   SpecJob     the daily payment job under its scheduling (fairness).    *)
(***************************************************************************)
EXTENDS Integers, Sequences, FiniteSets, TLC

VARIABLES
    clock,      \* the current date, timezone.now().date()
    plan,       \* the PricingPlan row that get_active_plan() would see
    bsub,       \* BusinessSubscription row of b1
    ssub,       \* StaffSubscription rows of b1, one per staff member
    methods,    \* PaymentMethod rows of b1 (id = index)
    invoices,   \* Invoice rows (id = index)
    lineItems,  \* InvoiceLineItem rows
    payments,   \* Payment rows (id = index)
    gatewayLog, \* charge requests sent to the gateway, one invoice id each
    gen,        \* invoice-generation runs in progress, one per runner
    pay,        \* payment calls in progress, one per worker
    member,     \* StaffMember rows as far as b1 sees them
    probe       \* arguments and result of a direct call: calculate_active_days,
                \* can_receive_bookings

vars == <<clock, plan, bsub, ssub, methods, invoices, lineItems, payments,
          gatewayLog, gen, pay, member, probe>>

(***************************************************************************)
(* Bounds of the model.                                                    *)
(***************************************************************************)
MaxTick == 3
TickDays == 15
MaxInvoices == 2
MaxPayments == 3
MaxMethods == 2
CourtesyDays == 10
MaxProbeMargin == 2
MaxPrice == 300

Staff == {"s1", "s2"}
Runners == {"r1", "r2"}
Workers == {"w1", "w2"}

\* A nullable date column holding NULL.
NULL == 0

(***************************************************************************)
(* Calendar: datetime.date and calendar.monthrange.                        *)
(***************************************************************************)
Years == 2023..2025

IsLeap(y) == (y % 4 = 0) /\ ((y % 100 # 0) \/ (y % 400 = 0))

DaysInMonth(y, m) ==
    IF m = 2 THEN (IF IsLeap(y) THEN 29 ELSE 28)
    ELSE IF m \in {4, 6, 9, 11} THEN 30 ELSE 31

DaysBeforeYear(y) ==
    LET k == y - 1 IN k * 365 + (k \div 4) - (k \div 100) + (k \div 400)

RECURSIVE DaysBeforeMonth(_, _)
DaysBeforeMonth(y, m) ==
    IF m = 1 THEN 0 ELSE DaysBeforeMonth(y, m - 1) + DaysInMonth(y, m - 1)

\* date(y, m, d)
MkDate(y, m, d) == DaysBeforeYear(y) + DaysBeforeMonth(y, m) + d

YearOf(o) == CHOOSE y \in Years : MkDate(y, 1, 1) <= o /\ o < MkDate(y + 1, 1, 1)

MonthOf(o) ==
    LET y == YearOf(o)
    IN  CHOOSE m \in 1..12 :
            MkDate(y, m, 1) <= o /\ o < MkDate(y, m, 1) + DaysInMonth(y, m)

DayOf(o) == o - MkDate(YearOf(o), MonthOf(o), 1) + 1

Max(a, b) == IF a >= b THEN a ELSE b
Min(a, b) == IF a <= b THEN a ELSE b

(***************************************************************************)
(* Decimal arithmetic: Decimal.quantize(..., rounding=ROUND_HALF_UP) of a  *)
(* non-negative quotient num/den, as an integer in the target unit.        *)
(***************************************************************************)
QuantizeRoundDown(num, den) == num \div den

QuantizeHalfUp(num, den) == (2 * num + den) \div (2 * den)

\* Decimal.quantize(...) under the default context (ROUND_HALF_EVEN)
QuantizeHalfEven(num, den) ==
    LET q == num \div den
        r == num % den
    IN  IF 2 * r > den \/ (2 * r = den /\ q % 2 = 1) THEN q + 1 ELSE q

(***************************************************************************)
(* Clock.  timezone.now().date() / date.today().                           *)
(***************************************************************************)
StartDate == MkDate(2023, 12, 18)

LastDate == StartDate + MaxTick * TickDays

Today == clock

(***************************************************************************)
(* PricingPlan                                                             *)
(***************************************************************************)
\* PricingPlan.get_active_plan(): the active plan, or none.
GetActivePlan(p) == p.is_active

\* plan.trial_days if plan else 14
TrialDays(p) == IF p.is_active THEN p.trial_days ELSE 14

(***************************************************************************)
(* StaffSubscription                                                       *)
(***************************************************************************)
NoStaffSub ==
    [exists |-> FALSE, is_active |-> FALSE, is_billable |-> FALSE,
     billable_since |-> NULL, deactivated_at |-> NULL, trial_ends_at |-> NULL]

\* StaffSubscription.calculate_active_days without the "+ 1".
CalculateActiveDaysExclusive(ss, period_start, period_end) ==
    IF ~ss.is_billable \/ ss.billable_since = NULL THEN 0
    ELSE LET effective_start == Max(ss.billable_since, period_start)
             effective_end == IF ss.deactivated_at # NULL
                              THEN Min(ss.deactivated_at, period_end)
                              ELSE period_end
         IN  IF effective_start > effective_end THEN 0
             ELSE effective_end - effective_start

\* StaffSubscription.calculate_active_days(period_start, period_end)
CalculateActiveDays(ss, period_start, period_end) ==
    IF ~ss.is_billable \/ ss.billable_since = NULL THEN 0
    ELSE LET effective_start == Max(ss.billable_since, period_start)
             effective_end == IF ss.deactivated_at # NULL
                              THEN Min(ss.deactivated_at, period_end)
                              ELSE period_end
         IN  IF effective_start > effective_end THEN 0
             ELSE (effective_end - effective_start) + 1

(***************************************************************************)
(* Billing period and rates of BillingService.generate_monthly_invoice     *)
(***************************************************************************)
\* The first day of the month before the reference date, without the step
\* into the previous year.
PeriodStartSameYear(today) ==
    MkDate(YearOf(today), IF MonthOf(today) = 1 THEN 12 ELSE MonthOf(today) - 1, 1)

\* First day of the month before the reference date.
PeriodStart(today) ==
    IF MonthOf(today) = 1
    THEN MkDate(YearOf(today) - 1, 12, 1)
    ELSE MkDate(YearOf(today), MonthOf(today) - 1, 1)

\* calendar.monthrange(period_start.year, period_start.month)[1]
DaysInPeriod(period_start) ==
    DaysInMonth(YearOf(period_start), MonthOf(period_start))

\* period_start.replace(day=days_in_period)
PeriodEnd(period_start) ==
    MkDate(YearOf(period_start), MonthOf(period_start), DaysInPeriod(period_start))

\* The daily rate quantized to 2 decimals instead of 4 (in 1/10000 units).
DailyRateTwoDecimals(monthly_rate, days_in_period) ==
    100 * QuantizeHalfUp(monthly_rate, days_in_period)

\* daily_rate = (monthly_rate / Decimal(days_in_period)).quantize(0.0001, HALF_UP)
\* monthly_rate in cents, result in 1/10000 units.
DailyRate(monthly_rate, days_in_period) ==
    QuantizeHalfUp(monthly_rate * 100, days_in_period)

\* The line subtotal rounded down instead of half-up.
LineSubtotalRoundDown(daily_rate, days_active) ==
    QuantizeRoundDown(daily_rate * days_active, 100)

\* subtotal = (daily_rate * days_active).quantize(0.01, HALF_UP), in cents.
LineSubtotal(daily_rate, days_active) ==
    QuantizeHalfUp(daily_rate * days_active, 100)

(***************************************************************************)
(* Rows                                                                    *)
(***************************************************************************)
NoBusinessSub ==
    [exists |-> FALSE, status |-> "trial", trial_ends_at |-> NULL,
     next_billing_date |-> NULL, last_payment_date |-> NULL,
     last_payment_amount |-> 0, has_courtesy_access |-> FALSE,
     courtesy_until |-> NULL]

\* BusinessSubscription.objects.get_or_create(business, defaults={'status': status})
GetOrCreateBusinessSub(bs, status) ==
    IF bs.exists THEN bs ELSE [NoBusinessSub EXCEPT !.exists = TRUE, !.status = status]

\* BusinessSubscription.billable_staff_count
BillableStaffCount(subs) ==
    Cardinality({s \in Staff : subs[s].exists /\ subs[s].is_billable /\ subs[s].is_active})

\* BusinessSubscription.check_and_update_status()
CheckAndUpdateStatus(bs, subs, today) ==
    LET afterTrial ==
            IF /\ bs.status = "trial"
               /\ bs.trial_ends_at # NULL
               /\ today >= bs.trial_ends_at
               /\ BillableStaffCount(subs) > 0
               /\ bs.last_payment_date = NULL
            THEN [bs EXCEPT !.status = "past_due"]
            ELSE bs
    IN  IF /\ afterTrial.status = "past_due"
           /\ afterTrial.next_billing_date # NULL
           /\ today - afterTrial.next_billing_date > 7
        THEN [afterTrial EXCEPT !.status = "suspended"]
        ELSE afterTrial

\* PaymentMethod.objects.filter(business=business, is_active=True).exists()
HasActivePaymentMethod(ms) == \E k \in 1..Len(ms) : ms[k].is_active

(***************************************************************************)
(* Initial state: a business with a pricing plan and nothing else.         *)
(***************************************************************************)
IdleRun ==
    [pc |-> "idle", today |-> NULL, staff_subs |-> <<>>, monthly_rate |-> 0,
     result |-> NULL, path |-> "none"]

IdleCall ==
    [pc |-> "idle", entry |-> "none", invoice |-> NULL, copy |-> <<>>,
     method |-> NULL, payment |-> NULL, result |-> "none"]

NoProbe == [phase |-> "none"]

Init ==
    /\ clock = StartDate
    /\ plan = [is_active |-> TRUE, price_per_staff |-> 10000, trial_days |-> 14]
    /\ bsub = NoBusinessSub
    /\ ssub = [s \in Staff |-> NoStaffSub]
    /\ member = [s \in Staff |-> "absent"]
    /\ methods = <<>>
    /\ invoices = <<>>
    /\ lineItems = {}
    /\ payments = <<>>
    /\ gatewayLog = <<>>
    /\ gen = [r \in Runners |-> IdleRun]
    /\ pay = [w \in Workers |-> IdleCall]
    /\ probe = NoProbe

(***************************************************************************)
(* Time                                                                    *)
(***************************************************************************)
Tick ==
    /\ clock + TickDays <= LastDate
    /\ clock' = clock + TickDays
    /\ UNCHANGED <<plan, bsub, ssub, methods, invoices, lineItems, payments,
                   gatewayLog, gen, pay, member, probe>>

(***************************************************************************)
(* Staff lifecycle                                                         *)
(***************************************************************************)
\* SubscriptionService.register_staff_to_subscription: the StaffSubscription
\* row after update_or_create.
RegisteredStaffSub(ss, today) ==
    IF ss.exists
    THEN [ss EXCEPT !.trial_ends_at = today + TrialDays(plan),
                    !.is_active = TRUE, !.is_billable = FALSE]
    ELSE [NoStaffSub EXCEPT !.exists = TRUE,
                            !.trial_ends_at = today + TrialDays(plan),
                            !.is_active = TRUE]

\* SubscriptionService.register_staff_to_subscription: the
\* BusinessSubscription row afterwards.
RegisteredBusinessSub(bs, staffTrialEnd) ==
    LET got == GetOrCreateBusinessSub(bs, "trial")
    IN  IF got.trial_ends_at = NULL
        THEN [got EXCEPT !.trial_ends_at = staffTrialEnd]
        ELSE got

\* SubscriptionService.deactivate_staff_subscription
DeactivatedBySignal(ss) ==
    IF ss.exists THEN [ss EXCEPT !.is_active = FALSE] ELSE ss

\* StaffMember.save() with its pre_save (check_staff_status_change) and
\* post_save (register_staff_subscription) receivers; old and new are the
\* member's standing in b1 before and after the save: "active" or "inactive"
\* (employment_status) while current_business is b1, "absent" otherwise.
StaffSubAfterSave(ss, old, new, today) ==
    LET pre == IF \/ old = "active" /\ new # "active"
                  \/ old # "absent" /\ new = "absent"
               THEN DeactivatedBySignal(ss) ELSE ss
    IN  IF new = "active" THEN RegisteredStaffSub(pre, today) ELSE pre

BusinessSubAfterSave(bs, new, today) ==
    IF new = "active" THEN RegisteredBusinessSub(bs, today + TrialDays(plan)) ELSE bs

\* A StaffMember of b1 is created or edited and saved.
SaveStaffMember(s, new) ==
    /\ new \in {"active", "inactive", "absent"}
    /\ ~(member[s] = "absent" /\ new = "absent")
    /\ member' = [member EXCEPT ![s] = new]
    /\ ssub' = [ssub EXCEPT ![s] = StaffSubAfterSave(ssub[s], member[s], new, Today)]
    /\ bsub' = BusinessSubAfterSave(bsub, new, Today)
    /\ UNCHANGED <<clock, plan, methods, invoices, lineItems, payments,
                   gatewayLog, gen, pay, probe>>

\* SubscriptionViewSet.activate_staff
ActivateStaff(s) ==
    /\ HasActivePaymentMethod(methods)
    /\ ssub[s].exists
    /\ ~(ssub[s].is_active /\ ssub[s].is_billable)
    /\ ssub' = [ssub EXCEPT ![s] =
                    [@ EXCEPT !.is_active = TRUE, !.is_billable = TRUE,
                              !.billable_since = Today, !.deactivated_at = NULL,
                              !.trial_ends_at = Today + 365]]
    /\ bsub' = IF bsub.exists /\ bsub.status \in {"trial", "past_due", "suspended"}
               THEN [bsub EXCEPT !.status = "active"]
               ELSE bsub
    /\ UNCHANGED <<clock, plan, methods, invoices, lineItems, payments,
                   gatewayLog, gen, pay, member, probe>>

\* SubscriptionViewSet.deactivate_staff, with the StaffMember.save() it ends
\* with and the receivers that save triggers.
DeactivateStaff(s) ==
    /\ ssub[s].exists
    /\ ssub[s].is_active
    /\ LET deactivated == [ssub[s] EXCEPT !.is_active = FALSE,
                                          !.deactivated_at = Today]
       IN  /\ ssub' = [ssub EXCEPT ![s] =
                          StaffSubAfterSave(deactivated, member[s], member[s], Today)]
           /\ bsub' = BusinessSubAfterSave(bsub, member[s], Today)
    /\ UNCHANGED <<clock, plan, methods, invoices, lineItems, payments,
                   gatewayLog, gen, pay, member, probe>>

\* The sweep marking a row billable without dating it.
SweptWithoutDate(ss, today) == [ss EXCEPT !.is_billable = TRUE]

\* check_all_trials: "staff_sub.is_billable = True;
\* staff_sub.billable_since = now.date(); staff_sub.save()"
Swept(ss, today) == [ss EXCEPT !.is_billable = TRUE, !.billable_since = today]

\* SubscriptionService.check_all_trials (task check_expired_trials)
CheckAllTrials ==
    LET expired == {s \in Staff : /\ ssub[s].exists
                                  /\ ~ssub[s].is_billable
                                  /\ ssub[s].is_active
                                  /\ ssub[s].trial_ends_at <= Today}
        swept == [s \in Staff |->
                    IF s \in expired
                    THEN Swept(ssub[s], Today)
                    ELSE ssub[s]]
    IN  /\ ssub' = swept
        /\ bsub' = IF bsub.exists /\ bsub.status = "trial"
                   THEN CheckAndUpdateStatus(bsub, swept, Today)
                   ELSE bsub
        /\ (ssub' # ssub \/ bsub' # bsub)
        /\ UNCHANGED <<clock, plan, methods, invoices, lineItems, payments,
                       gatewayLog, gen, pay, member, probe>>

\* SubscriptionViewSet.activate_all_staff
ActivateAllStaff ==
    LET pending == {s \in Staff : /\ ssub[s].exists
                                  /\ ~ssub[s].is_billable
                                  /\ ssub[s].trial_ends_at <= Today}
    IN  /\ HasActivePaymentMethod(methods)
        /\ pending # {}
        /\ ssub' = [s \in Staff |->
                      IF s \in pending
                      THEN [ssub[s] EXCEPT !.is_active = TRUE, !.is_billable = TRUE,
                                           !.billable_since = Today,
                                           !.deactivated_at = NULL,
                                           !.trial_ends_at = Today + 365]
                      ELSE ssub[s]]
        /\ bsub' = IF bsub.exists THEN [bsub EXCEPT !.status = "active"] ELSE bsub
        /\ UNCHANGED <<clock, plan, methods, invoices, lineItems, payments,
                       gatewayLog, gen, pay, member, probe>>

\* The default of "days" in extend_staff_trial.
ExtendDays == 14

\* The latest trial end that an extension may produce.
MaxTrialEnd == LastDate + 365 + ExtendDays

\* SubscriptionViewSet.extend_staff_trial with the default number of days
ExtendStaffTrial(s) ==
    /\ ssub[s].exists
    /\ LET ends == ssub[s].trial_ends_at
           extended == IF ends # NULL /\ ends < Today
                       THEN Today + ExtendDays
                       ELSE (IF ends # NULL THEN ends ELSE Today) + ExtendDays
       IN  /\ extended <= MaxTrialEnd
           /\ ssub' = [ssub EXCEPT ![s] = [@ EXCEPT !.trial_ends_at = extended,
                                                    !.is_billable = FALSE]]
    /\ UNCHANGED <<clock, plan, bsub, methods, invoices, lineItems, payments,
                   gatewayLog, gen, pay, member, probe>>

\* SubscriptionService.can_receive_bookings(b1), which a booking request
\* calls: the subscription is created if missing and its status refreshed.
CanReceiveBookings ==
    /\ bsub' = CheckAndUpdateStatus(GetOrCreateBusinessSub(bsub, "trial"), ssub, Today)
    /\ bsub' # bsub
    /\ UNCHANGED <<clock, plan, ssub, methods, invoices, lineItems, payments,
                   gatewayLog, gen, pay, member, probe>>

\* can_receive_bookings answering by the status alone, 'past_due' allowed.
BookingAnswerAllowsPastDue(status) ==
    IF status \in {"trial", "active", "past_due"} THEN <<TRUE, "">>
    ELSE IF status = "suspended" THEN <<FALSE, "suspendida por falta de pago">>
    ELSE IF status = "cancelled" THEN <<FALSE, "cancelada">>
    ELSE <<FALSE, "desconocido">>

\* The return value of can_receive_bookings for the status left by
\* check_and_update_status: (puede_recibir, mensaje_error).
BookingAnswer(status) ==
    IF status \in {"trial", "active"} THEN <<TRUE, "">>
    ELSE IF status = "past_due" THEN <<FALSE, "pago pendiente">>
    ELSE IF status = "suspended" THEN <<FALSE, "suspendida por falta de pago">>
    ELSE IF status = "cancelled" THEN <<FALSE, "cancelada">>
    ELSE <<FALSE, "desconocido">>

\* start_booking up to its subscription check: can_receive_bookings(b1) and
\* what the view keeps of its answer; request tells one request from the
\* one before it.
StartBooking ==
    LET checked == CheckAndUpdateStatus(GetOrCreateBusinessSub(bsub, "trial"),
                                        ssub, Today)
        answer == BookingAnswer(checked.status)
    IN  /\ bsub' = checked
        /\ probe' = [phase |-> "booking", can_book |-> answer[1],
                     error_msg |-> answer[2],
                     request |-> IF probe.phase = "booking"
                                 THEN 1 - probe.request ELSE 0]
        /\ UNCHANGED <<clock, plan, ssub, methods, invoices, lineItems, payments,
                       gatewayLog, gen, pay, member>>

\* BusinessSubscriptionAdmin: support staff cancel the subscription by
\* editing its status, the only way a subscription becomes 'cancelled'.
AdminCancel ==
    /\ bsub.exists
    /\ bsub.status # "cancelled"
    /\ bsub' = [bsub EXCEPT !.status = "cancelled"]
    /\ UNCHANGED <<clock, plan, ssub, methods, invoices, lineItems, payments,
                   gatewayLog, gen, pay, member, probe>>

(***************************************************************************)
(* Payment methods                                                         *)
(***************************************************************************)
UnmarkDefaults(ms) == [k \in 1..Len(ms) |-> [ms[k] EXCEPT !.is_default = FALSE]]

\* PaymentMethod.save() of a new row: the rows afterwards.
SaveNewPaymentMethod(ms, row) ==
    LET others == IF row.is_default THEN UnmarkDefaults(ms) ELSE ms
        first == Len(ms) = 0
    IN  Append(others, [row EXCEPT !.is_default = row.is_default \/ first])

\* BillingService.add_payment_method (the gateway accepted the card)
AddPaymentMethod(set_as_default) ==
    /\ Len(methods) < MaxMethods
    /\ LET cleared == IF set_as_default THEN UnmarkDefaults(methods) ELSE methods
       IN  methods' = SaveNewPaymentMethod(cleared,
                          [method_type |-> "card", is_default |-> set_as_default,
                           is_active |-> TRUE])
    /\ UNCHANGED <<clock, plan, bsub, ssub, invoices, lineItems, payments,
                   gatewayLog, gen, pay, member, probe>>

(***************************************************************************)
(* Invoice generation: BillingService.generate_monthly_invoice             *)
(*                                                                         *)
(* The method runs in one database transaction (@transaction.atomic).  A   *)
(* run reads the plan, the existing invoices and the staff subscriptions   *)
(* when it begins (GenBegin) and its inserts become visible to others when *)
(* it commits (GenCommit).                                                 *)
(***************************************************************************)
\* generate_monthly_invoice without its existence check.
InvoiceExistsSkipped(invs, period_start, period_end) == FALSE

\* Invoice.objects.filter(business, period_start, period_end).exists()
InvoiceExists(invs, period_start, period_end) ==
    \E i \in 1..Len(invs) : /\ invs[i].period_start = period_start
                            /\ invs[i].period_end = period_end

\* The staff_subs queryset: rows billable at some point of the period.
StaffSubsInPeriod(subs, period_start, period_end) ==
    {s \in Staff : /\ subs[s].exists
                   /\ subs[s].is_billable
                   /\ subs[s].billable_since # NULL
                   /\ subs[s].billable_since <= period_end
                   /\ (subs[s].deactivated_at = NULL
                       \/ subs[s].deactivated_at >= period_start)}

\* The InvoiceLineItem rows the loop creates for invoice id.
LineItemsFor(id, staff_subs, period_start, period_end, monthly_rate) ==
    LET days_in_period == DaysInPeriod(period_start)
        daily_rate == DailyRate(monthly_rate, days_in_period)
    IN  { [invoice |-> id,
           staff |-> s,
           period_start |-> Max(staff_subs[s].billable_since, period_start),
           period_end |-> IF staff_subs[s].deactivated_at # NULL
                          THEN Min(staff_subs[s].deactivated_at, period_end)
                          ELSE period_end,
           days_in_period |-> days_in_period,
           days_active |-> CalculateActiveDays(staff_subs[s], period_start, period_end),
           monthly_rate |-> monthly_rate,
           daily_rate |-> daily_rate,
           subtotal |-> LineSubtotal(daily_rate,
                            CalculateActiveDays(staff_subs[s], period_start, period_end))]
          : s \in {t \in DOMAIN staff_subs :
                      CalculateActiveDays(staff_subs[t], period_start, period_end) # 0} }

RECURSIVE SumSubtotals(_)
SumSubtotals(items) ==
    IF items = {} THEN 0
    ELSE LET it == CHOOSE x \in items : TRUE
         IN  it.subtotal + SumSubtotals(items \ {it})

\* Invoice.max_payment_attempts (default)
MaxPaymentAttempts == 3

\* "if staff_count == 0: invoice.delete()", with the test dropped.
ShellIsEmptyNever(items) == FALSE

\* "if staff_count == 0: invoice.delete()"
ShellIsEmpty(items) == Cardinality(items) = 0

\* The Invoice row as saved at the end of generate_monthly_invoice.
MonthlyInvoice(today, period_start, period_end, monthly_rate, items) ==
    [period_start |-> period_start,
     period_end |-> period_end,
     staff_count |-> Cardinality(items),
     price_per_staff |-> monthly_rate,
     subtotal |-> SumSubtotals(items),
     total |-> SumSubtotals(items),
     is_prorated |-> FALSE,
     due_date |-> today + 7,
     status |-> "pending",
     paid_at |-> NULL,
     payment_method_used |-> NULL,
     max_payment_attempts |-> MaxPaymentAttempts]

\* Which businesses an entry point hands to generate_monthly_invoice:
\* generate_all_monthly_invoices (task) and the generate_invoices command
\* take subscriptions in active, past_due or trial; the command with
\* --business takes the business whatever its status.
GenEntryAllows(entry, bs) ==
    /\ bs.exists
    /\ (entry = "command_business" \/ bs.status \in {"active", "past_due", "trial"})

GenEntries == {"task", "command", "command_business"}

FinishRun(r, result, path) ==
    gen' = [gen EXCEPT ![r] = [IdleRun EXCEPT !.result = result, !.path = path]]

\* generate_monthly_invoice up to the creation of the invoice shell.
GenBegin(r, entry) ==
    /\ gen[r].pc = "idle"
    /\ GenEntryAllows(entry, bsub)
    /\ LET period_start == PeriodStart(Today)
           period_end == PeriodEnd(period_start)
           found == StaffSubsInPeriod(ssub, period_start, period_end)
       IN  IF ~GetActivePlan(plan)
           THEN FinishRun(r, NULL, "no_plan")
           ELSE IF InvoiceExists(invoices, period_start, period_end)
           THEN FinishRun(r, NULL, "exists")
           ELSE IF found = {}
           THEN FinishRun(r, NULL, "no_staff")
           ELSE gen' = [gen EXCEPT ![r] =
                           [pc |-> "open", today |-> Today,
                            staff_subs |-> [s \in found |-> ssub[s]],
                            monthly_rate |-> plan.price_per_staff,
                            result |-> NULL, path |-> "none"]]
    /\ UNCHANGED <<clock, plan, bsub, ssub, methods, invoices, lineItems,
                   payments, gatewayLog, pay, member, probe>>

\* generate_monthly_invoice from the invoice shell to the commit.
GenCommit(r) ==
    /\ gen[r].pc = "open"
    /\ Len(invoices) < MaxInvoices
    /\ LET period_start == PeriodStart(gen[r].today)
           period_end == PeriodEnd(period_start)
           id == Len(invoices) + 1
           items == LineItemsFor(id, gen[r].staff_subs, period_start, period_end,
                                 gen[r].monthly_rate)
       IN  IF ShellIsEmpty(items)
           THEN /\ FinishRun(r, NULL, "empty")
                /\ UNCHANGED <<invoices, lineItems>>
           ELSE /\ invoices' = Append(invoices,
                        MonthlyInvoice(gen[r].today, period_start, period_end,
                                       gen[r].monthly_rate, items))
                /\ lineItems' = lineItems \cup items
                /\ FinishRun(r, id, "created")
    /\ UNCHANGED <<clock, plan, bsub, ssub, methods, payments, gatewayLog,
                   pay, member, probe>>

\* The Invoice row that Invoice.objects.create writes before the line items.
InvoiceShell(today, period_start, period_end, monthly_rate) ==
    MonthlyInvoice(today, period_start, period_end, monthly_rate, {})

\* A failing run without @transaction.atomic: the shell and the line items
\* written before the failure stay.
KeptAfterFailure(invs, items, shell, written) ==
    [invoices |-> Append(invs, shell), lineItems |-> items \cup written]

\* @transaction.atomic on generate_monthly_invoice: the rows in the database
\* after a run that wrote the shell and some line items has raised or been
\* killed; the transaction is rolled back.
RolledBackAfterFailure(invs, items, shell, written) ==
    [invoices |-> invs, lineItems |-> items]

\* generate_monthly_invoice fails between the creation of the shell and the
\* commit: an exception in the loop or in a save, or the death of the process.
GenFail(r) ==
    /\ gen[r].pc = "open"
    /\ LET period_start == PeriodStart(gen[r].today)
           period_end == PeriodEnd(period_start)
           id == Len(invoices) + 1
           items == LineItemsFor(id, gen[r].staff_subs, period_start, period_end,
                                 gen[r].monthly_rate)
           shell == InvoiceShell(gen[r].today, period_start, period_end,
                                 gen[r].monthly_rate)
       IN  \E written \in SUBSET items :
              LET left == RolledBackAfterFailure(invoices, lineItems, shell, written)
              IN  /\ invoices' = left.invoices
                  /\ lineItems' = left.lineItems
    /\ FinishRun(r, NULL, "failed")
    /\ UNCHANGED <<clock, plan, bsub, ssub, methods, payments, gatewayLog,
                   pay, member, probe>>

(***************************************************************************)
(* The generators of SubscriptionService                                   *)
(***************************************************************************)
\* The first of the next month without the step into the next year.
FirstOfNextMonthSameYear(d) == MkDate(YearOf(d), (MonthOf(d) % 12) + 1, 1)

\* today.replace(year=next_year, month=next_month, day=1)
FirstOfNextMonth(d) ==
    IF MonthOf(d) = 12 THEN MkDate(YearOf(d) + 1, 1, 1)
    ELSE MkDate(YearOf(d), MonthOf(d) + 1, 1)

\* SubscriptionService.generate_monthly_invoices, for b1
LegacyGenerateMonthlyInvoices ==
    /\ GetActivePlan(plan)
    /\ bsub.exists
    /\ bsub.status \in {"active", "past_due"}
    /\ BillableStaffCount(ssub) # 0
    /\ Len(invoices) < MaxInvoices
    /\ LET period_start == PeriodStart(Today)
           billable_count == BillableStaffCount(ssub)
           subtotal == plan.price_per_staff * billable_count
       IN  invoices' = Append(invoices,
               [period_start |-> period_start,
                period_end |-> PeriodEnd(period_start),
                staff_count |-> billable_count,
                price_per_staff |-> plan.price_per_staff,
                subtotal |-> subtotal,
                total |-> subtotal,
                is_prorated |-> FALSE,
                due_date |-> Today + 7,
                status |-> "pending",
                paid_at |-> NULL,
                payment_method_used |-> NULL,
                max_payment_attempts |-> MaxPaymentAttempts])
    /\ bsub' = [bsub EXCEPT !.next_billing_date = FirstOfNextMonth(Today)]
    /\ UNCHANGED <<clock, plan, ssub, methods, lineItems, payments, gatewayLog,
                   gen, pay, member, probe>>

\* SubscriptionService.generate_prorated_invoice(b1); the subtotal is the
\* exact quotient quantized under the default context (ROUND_HALF_EVEN).
GenerateProratedInvoice ==
    /\ GetActivePlan(plan)
    /\ bsub.exists
    /\ BillableStaffCount(ssub) # 0
    /\ Len(invoices) < MaxInvoices
    /\ LET days_in_month == DaysInMonth(YearOf(Today), MonthOf(Today))
           days_remaining == days_in_month - DayOf(Today) + 1
           billable_count == BillableStaffCount(ssub)
           period_end == MkDate(YearOf(Today), MonthOf(Today), days_in_month)
           subtotal == QuantizeHalfEven(
                           plan.price_per_staff * days_remaining * billable_count,
                           days_in_month)
       IN  /\ invoices' = Append(invoices,
                  [period_start |-> Today,
                   period_end |-> period_end,
                   staff_count |-> billable_count,
                   price_per_staff |-> plan.price_per_staff,
                   subtotal |-> subtotal,
                   total |-> subtotal,
                   is_prorated |-> TRUE,
                   due_date |-> Today + 7,
                   status |-> "pending",
                   paid_at |-> NULL,
                   payment_method_used |-> NULL,
                   max_payment_attempts |-> MaxPaymentAttempts])
           /\ bsub' = [bsub EXCEPT !.status = "past_due",
                                   !.next_billing_date = period_end + 1]
    /\ UNCHANGED <<clock, plan, ssub, methods, lineItems, payments, gatewayLog,
                   gen, pay, member, probe>>

(***************************************************************************)
(* Courtesy access: CourtesyService                                        *)
(***************************************************************************)
\* BusinessSubscription.is_courtesy_active without the courtesy_until test.
IsCourtesyActiveIgnoringUntil(bs, today) == bs.has_courtesy_access

\* BusinessSubscription.is_courtesy_active
IsCourtesyActive(bs, today) ==
    IF ~bs.has_courtesy_access THEN FALSE
    ELSE IF bs.courtesy_until # NULL THEN today <= bs.courtesy_until
    ELSE TRUE

\* PaymentMethod.Meta.ordering = ['-is_default', '-created_at'] and .first():
\* of the rows in found, a default one before the others, the newest first.
FirstByOrdering(ms, found) ==
    LET defaults == {k \in found : ms[k].is_default}
        pool == IF defaults # {} THEN defaults ELSE found
    IN  IF found = {} THEN NULL ELSE CHOOSE k \in pool : \A j \in pool : k >= j

\* CourtesyService._ensure_courtesy_payment_method
EnsureCourtesyPaymentMethod(ms) ==
    IF \E k \in 1..Len(ms) : ms[k].method_type = "courtesy" /\ ms[k].is_active
    THEN ms
    ELSE SaveNewPaymentMethod(ms, [method_type |-> "courtesy", is_default |-> TRUE,
                                   is_active |-> TRUE])

\* CourtesyService._remove_courtesy_payment_method
RemoveCourtesyPaymentMethod(ms) ==
    LET updated == [k \in 1..Len(ms) |->
                      IF ms[k].method_type = "courtesy"
                      THEN [ms[k] EXCEPT !.is_active = FALSE, !.is_default = FALSE]
                      ELSE ms[k]]
        cards == {k \in 1..Len(ms) : updated[k].method_type = "card" /\ updated[k].is_active}
    IN  IF cards = {} THEN updated
        ELSE LET other == FirstByOrdering(updated, cards)
             IN  [k \in 1..Len(ms) |-> [updated[k] EXCEPT !.is_default = (k = other)]]

\* CourtesyService.enable_courtesy(b1, days); days = 0 stands for None.
EnableCourtesy(days) ==
    /\ Len(EnsureCourtesyPaymentMethod(methods)) <= MaxMethods
    /\ LET got == GetOrCreateBusinessSub(bsub, "active")
       IN  bsub' = [got EXCEPT !.has_courtesy_access = TRUE,
                               !.courtesy_until = IF days # 0 THEN Today + days ELSE NULL,
                               !.status = IF got.status \in {"suspended", "past_due"}
                                          THEN "active" ELSE got.status]
    /\ methods' = EnsureCourtesyPaymentMethod(methods)
    /\ UNCHANGED <<clock, plan, ssub, invoices, lineItems, payments, gatewayLog,
                   gen, pay, member, probe>>

\* CourtesyService.disable_courtesy(b1)
DisableCourtesy ==
    /\ bsub.exists
    /\ bsub' = [bsub EXCEPT !.has_courtesy_access = FALSE, !.courtesy_until = NULL]
    /\ methods' = RemoveCourtesyPaymentMethod(methods)
    /\ UNCHANGED <<clock, plan, ssub, invoices, lineItems, payments, gatewayLog,
                   gen, pay, member, probe>>

\* BillingService.delete_payment_method(k), reached through the view for an
\* active method of the business.
DeletePaymentMethod(k) ==
    /\ k \in 1..Len(methods)
    /\ methods[k].is_active
    /\ LET was_default == methods[k].is_default
           unmarked == IF was_default
                       THEN [j \in 1..Len(methods) |->
                               IF j = k THEN methods[j]
                               ELSE [methods[j] EXCEPT !.is_default = FALSE]]
                       ELSE methods
           deleted == [unmarked EXCEPT ![k].is_active = FALSE]
           other == FirstByOrdering(deleted,
                                    {j \in 1..Len(deleted) : deleted[j].is_active})
       IN  methods' = IF was_default /\ other # NULL
                      THEN [j \in 1..Len(deleted) |->
                              [deleted[j] EXCEPT !.is_default = (j = other)]]
                      ELSE deleted
    /\ UNCHANGED <<clock, plan, bsub, ssub, invoices, lineItems, payments,
                   gatewayLog, gen, pay, member, probe>>

\* BillingService.set_default_payment_method(k), reached through the view
\* for an active method of the business.
SetDefaultPaymentMethod(k) ==
    /\ k \in 1..Len(methods)
    /\ methods[k].is_active
    /\ methods' = [UnmarkDefaults(methods) EXCEPT ![k].is_default = TRUE]
    /\ methods' # methods
    /\ UNCHANGED <<clock, plan, bsub, ssub, invoices, lineItems, payments,
                   gatewayLog, gen, pay, member, probe>>

(***************************************************************************)
(* Payment processing: BillingService.process_invoice_payment and its      *)
(* callers.                                                                *)
(*                                                                         *)
(* A caller loads the Invoice into memory (PayLoad) and hands that copy to *)
(* the service, which works on it up to the request to the gateway         *)
(* (PayStart) and finishes when the gateway answers (PayFinish).  None of  *)
(* it runs in a transaction: every save() is visible at once and writes    *)
(* the columns of the caller's copy.  payment_attempts is not a column of  *)
(* Invoice: it is an attribute of the copy, set only by                    *)
(* retry_failed_payment, and reading it on a copy without it raises        *)
(* AttributeError.                                                         *)
(***************************************************************************)
PayEntries == {"pay_invoice", "job", "command", "single", "retry"}

\* PaymentMethod.objects.filter(business, is_active=True, is_default=True).first()
DefaultMethod(ms) ==
    LET found == {k \in 1..Len(ms) : ms[k].is_active /\ ms[k].is_default}
    IN  FirstByOrdering(ms, found)

\* Invoice.objects.get(...): the in-memory copy of row i.
LoadedInvoice(i) ==
    [row |-> invoices[i], has_payment_attempts |-> FALSE, payment_attempts |-> 0]

\* invoice.save() of a copy
SavedInvoices(invs, i, copy) == [invs EXCEPT ![i] = copy.row]

\* BillingService._update_subscription_after_payment
UpdateSubscriptionAfterPayment(bs, row, today) ==
    IF bs.exists
    THEN [bs EXCEPT !.status = "active",
                    !.last_payment_date = today,
                    !.last_payment_amount = row.total,
                    !.next_billing_date = FirstOfNextMonth(row.period_end)]
    ELSE bs

\* BillingService._handle_payment_failure
HandlePaymentFailure(bs) ==
    IF bs.exists THEN [bs EXCEPT !.status = "past_due"] ELSE bs

\* A Payment row as Payment.objects.create writes it.
NewPayment(i, method, amount, status) ==
    [invoice |-> i, payment_method |-> method, amount |-> amount, status |-> status,
     error_message |-> IF status = "failed" THEN "set by the service" ELSE "",
     culqi_response_code |-> ""]

\* The call of worker w returns (or raises, result "error").
FinishCall(w, result, payment) ==
    pay' = [pay EXCEPT ![w] = [IdleCall EXCEPT !.entry = pay[w].entry,
                                               !.invoice = pay[w].invoice,
                                               !.result = result,
                                               !.payment = payment]]

\* The callers up to the call of the service: pay_invoice (view, with an
\* optional payment_method_id), process_all_pending_invoices (job), the
\* process_payments command, process_single_invoice, and a caller of
\* retry_failed_payment.
PayLoad(w, entry, i, m) ==
    /\ pay[w].pc = "idle"
    /\ i \in 1..Len(invoices)
    /\ m = NULL \/ (entry = "pay_invoice" /\ m \in 1..Len(methods) /\ methods[m].is_active)
    /\ entry \in {"job", "command"}
       => invoices[i].status = "pending" /\ invoices[i].due_date <= Today
    /\ IF entry \in {"pay_invoice", "single"} /\ invoices[i].status = "paid"
       THEN pay' = [pay EXCEPT ![w] = [IdleCall EXCEPT !.entry = entry, !.invoice = i,
                                                       !.result = "rejected"]]
       ELSE pay' = [pay EXCEPT ![w] = [pc |-> "loaded", entry |-> entry, invoice |-> i,
                                       copy |-> LoadedInvoice(i), method |-> m,
                                       payment |-> NULL, result |-> "none"]]
    /\ UNCHANGED <<clock, plan, bsub, ssub, methods, invoices, lineItems, payments,
                   gatewayLog, gen, member, probe>>

\* BillingService._process_courtesy_payment(invoice, payment_method)
ProcessCourtesyPayment(w, copy, invs, m) ==
    LET i == pay[w].invoice
        id == Len(payments) + 1
        paid == [copy EXCEPT !.row.status = "paid", !.row.paid_at = Today,
                             !.row.payment_method_used = m]
    IN  IF ~bsub.exists \/ ~IsCourtesyActive(bsub, Today)
        THEN /\ payments' = Append(payments, NewPayment(i, m, copy.row.total, "failed"))
             /\ invoices' = invs
             /\ FinishCall(w, "failure", id)
             /\ UNCHANGED <<bsub, gatewayLog>>
        ELSE /\ payments' = Append(payments, NewPayment(i, m, copy.row.total, "succeeded"))
             /\ invoices' = SavedInvoices(invs, i, paid)
             /\ bsub' = UpdateSubscriptionAfterPayment(bsub, paid.row, Today)
             /\ FinishCall(w, "success", id)
             /\ UNCHANGED gatewayLog

\* BillingService.process_invoice_payment(invoice, payment_method) up to the
\* request to the gateway; invs are the Invoice rows as the caller left them.
ProcessInvoicePayment(w, copy, invs) ==
    LET i == pay[w].invoice
        m == IF pay[w].method # NULL THEN pay[w].method ELSE DefaultMethod(methods)
        id == Len(payments) + 1
    IN  IF m = NULL
        THEN /\ payments' = Append(payments, NewPayment(i, NULL, copy.row.total, "failed"))
             /\ invoices' = invs
             /\ FinishCall(w, "failure", id)
             /\ UNCHANGED <<bsub, gatewayLog>>
        ELSE IF methods[m].method_type = "courtesy"
        THEN ProcessCourtesyPayment(w, copy, invs, m)
        ELSE IF ~copy.has_payment_attempts
        THEN /\ invoices' = invs
             /\ FinishCall(w, "error", NULL)
             /\ UNCHANGED <<bsub, payments, gatewayLog>>
        ELSE IF copy.payment_attempts >= copy.row.max_payment_attempts
        THEN /\ payments' = Append(payments, NewPayment(i, m, copy.row.total, "failed"))
             /\ invoices' = SavedInvoices(invs, i, [copy EXCEPT !.row.status = "failed"])
             /\ FinishCall(w, "failure", id)
             /\ UNCHANGED <<bsub, gatewayLog>>
        ELSE LET counted == [copy EXCEPT !.payment_attempts = @ + 1]
             IN  /\ payments' = Append(payments,
                                       NewPayment(i, m, copy.row.total, "pending"))
                 /\ invoices' = SavedInvoices(invs, i, counted)
                 /\ gatewayLog' = Append(gatewayLog,
                                         [invoice |-> i, payment |-> id,
                                          outcome |-> "sent"])
                 /\ pay' = [pay EXCEPT ![w] = [@ EXCEPT !.pc = "charging",
                                                        !.copy = counted,
                                                        !.method = m,
                                                        !.payment = id]]
                 /\ UNCHANGED bsub

\* The service is called on the loaded copy: directly, or through
\* retry_failed_payment, which first resets the copy and saves it.
PayStart(w) ==
    /\ pay[w].pc = "loaded"
    /\ Len(payments) < MaxPayments
    /\ IF pay[w].entry = "retry"
       THEN IF pay[w].copy.row.status = "paid"
            THEN /\ FinishCall(w, "error", NULL)
                 /\ UNCHANGED <<bsub, invoices, payments, gatewayLog>>
            ELSE LET reset == [pay[w].copy EXCEPT !.has_payment_attempts = TRUE,
                                                  !.payment_attempts = 0,
                                                  !.row.status = "pending"]
                 IN  ProcessInvoicePayment(w, reset,
                                           SavedInvoices(invoices, pay[w].invoice, reset))
       ELSE ProcessInvoicePayment(w, pay[w].copy, invoices)
    /\ UNCHANGED <<clock, plan, ssub, methods, lineItems, gen, member, probe>>

\* The gateway's answer recorded in the log of requests.
Answered(log, id, outcome) ==
    [k \in 1..Len(log) |-> IF log[k].payment = id
                           THEN [log[k] EXCEPT !.outcome = outcome] ELSE log[k]]

\* What happens to a charge request: the gateway accepts it, declines the
\* card (HTTP 4xx with a card error), answers with another HTTP error, does
\* not answer within the 30 s timeout, or cannot be reached.
GatewayAnswers == {"accepted", "declined", "http_error", "timeout", "connection_error"}

\* _make_request letting requests.exceptions.Timeout through to its caller.
MakeRequestTimeoutUncaught(answer) ==
    CASE answer = "accepted" -> [raised |-> "none", code |-> "", message |-> ""]
      [] answer = "declined" ->
            [raised |-> "CulqiError", code |-> "card_error", message |-> "user_message"]
      [] answer = "http_error" ->
            [raised |-> "CulqiError", code |-> "api_error", message |-> "merchant_message"]
      [] answer = "timeout" ->
            [raised |-> "Timeout", code |-> "", message |-> ""]
      [] answer = "connection_error" ->
            [raised |-> "CulqiError", code |-> "connection_error",
             message |-> "Error de conexión"]

\* CulqiService._make_request: the response data, or the CulqiError raised
\* with its code and message.
MakeRequest(answer) ==
    CASE answer = "accepted" -> [raised |-> "none", code |-> "", message |-> ""]
      [] answer = "declined" ->
            [raised |-> "CulqiError", code |-> "card_error", message |-> "user_message"]
      [] answer = "http_error" ->
            [raised |-> "CulqiError", code |-> "api_error", message |-> "merchant_message"]
      [] answer = "timeout" ->
            [raised |-> "CulqiError", code |-> "timeout",
             message |-> "Tiempo de espera agotado"]
      [] answer = "connection_error" ->
            [raised |-> "CulqiError", code |-> "connection_error",
             message |-> "Error de conexión"]

\* process_invoice_payment from the gateway's answer on: the charge data, or
\* the CulqiError handled by the except clause; any other exception leaves
\* the method.
PayFinish(w, answer) ==
    /\ pay[w].pc = "charging"
    /\ LET i == pay[w].invoice
           id == pay[w].payment
           copy == pay[w].copy
           paid == [copy EXCEPT !.row.status = "paid", !.row.paid_at = Today,
                                !.row.payment_method_used = pay[w].method]
           outcome == MakeRequest(answer)
       IN  /\ gatewayLog' = Answered(gatewayLog, id, answer)
           /\ IF outcome.raised = "none"
              THEN /\ payments' = [payments EXCEPT ![id].status = "succeeded"]
                   /\ invoices' = SavedInvoices(invoices, i, paid)
                   /\ bsub' = UpdateSubscriptionAfterPayment(bsub, paid.row, Today)
                   /\ FinishCall(w, "success", id)
              ELSE IF outcome.raised = "CulqiError"
              THEN /\ payments' = [payments EXCEPT
                                      ![id].status = "failed",
                                      ![id].error_message = outcome.message,
                                      ![id].culqi_response_code = outcome.code]
                   /\ IF copy.payment_attempts >= copy.row.max_payment_attempts
                      THEN /\ invoices' = SavedInvoices(invoices, i,
                                              [copy EXCEPT !.row.status = "failed"])
                           /\ bsub' = HandlePaymentFailure(bsub)
                      ELSE UNCHANGED <<invoices, bsub>>
                   /\ FinishCall(w, "failure", id)
              ELSE /\ FinishCall(w, "error", NULL)
                   /\ UNCHANGED <<payments, invoices, bsub>>
    /\ UNCHANGED <<clock, plan, ssub, methods, lineItems, gen, member, probe>>

(***************************************************************************)
(* Suspension of businesses with overdue invoices                          *)
(***************************************************************************)
\* Days after the due date before a business is suspended ("grace_period",
\* and the default of --grace-days).
GraceDays == 7

\* Invoice.objects.filter(status__in=['pending', 'failed'],
\*                        due_date__lt=today - grace_period), for b1
HasOverdueInvoice(invs, today) ==
    \E i \in 1..Len(invs) : /\ invs[i].status \in {"pending", "failed"}
                            /\ invs[i].due_date < today - GraceDays

\* The task suspend_unpaid_subscriptions
SuspendUnpaidTask ==
    /\ HasOverdueInvoice(invoices, Today)
    /\ bsub.exists
    /\ bsub.status \notin {"suspended", "cancelled"}
    /\ bsub' = [bsub EXCEPT !.status = "suspended"]
    /\ UNCHANGED <<clock, plan, ssub, methods, invoices, lineItems, payments,
                   gatewayLog, gen, pay, member, probe>>

\* The management command suspend_unpaid (without --dry-run)
SuspendUnpaidCommand ==
    /\ HasOverdueInvoice(invoices, Today)
    /\ bsub.exists
    /\ bsub.status \notin {"suspended", "cancelled"}
    /\ ~IsCourtesyActive(bsub, Today)
    /\ bsub' = [bsub EXCEPT !.status = "suspended"]
    /\ UNCHANGED <<clock, plan, ssub, methods, invoices, lineItems, payments,
                   gatewayLog, gen, pay, member, probe>>

(***************************************************************************)
(* Spec: the staff lifecycle of one team member with the billing service's *)
(* invoice generation run by one runner, from an empty database.           *)
(***************************************************************************)
Team == {"s1"}

Runner == {"r1"}

Next ==
    \/ Tick
    \/ \E s \in Team, new \in {"active", "inactive", "absent"} : SaveStaffMember(s, new)
    \/ \E s \in Team : ActivateStaff(s)
    \/ \E s \in Team : DeactivateStaff(s)
    \/ CheckAllTrials
    \/ \E d \in BOOLEAN : AddPaymentMethod(d)
    \/ \E r \in Runner, e \in GenEntries : GenBegin(r, e)
    \/ \E r \in Runner : GenCommit(r)

Spec == Init /\ [][Next]_vars

(***************************************************************************)
(* SpecCalc: StaffSubscription.calculate_active_days called directly on    *)
(* rows and periods drawn from bounded sets.                               *)
(***************************************************************************)
\* Periods of 31, 29 and 30 days.
ProbePeriods == {MkDate(2024, 1, 1), MkDate(2024, 2, 1), MkDate(2024, 4, 1)}

ProbeDates(period_start) ==
    (period_start - MaxProbeMargin)..(PeriodEnd(period_start) + MaxProbeMargin)

InitCalc ==
    /\ clock = StartDate
    /\ plan = [is_active |-> TRUE, price_per_staff |-> 10000, trial_days |-> 14]
    /\ bsub = NoBusinessSub
    /\ ssub = [s \in Staff |-> NoStaffSub]
    /\ member = [s \in Staff |-> "absent"]
    /\ methods = <<>>
    /\ invoices = <<>>
    /\ lineItems = {}
    /\ payments = <<>>
    /\ gatewayLog = <<>>
    /\ gen = [r \in Runners |-> IdleRun]
    /\ pay = [w \in Workers |-> IdleCall]
    /\ \E ps \in ProbePeriods, billable \in BOOLEAN :
       \E since \in ProbeDates(ps) \cup {NULL}, deact \in ProbeDates(ps) \cup {NULL} :
            probe = [phase |-> "args",
                     row |-> [NoStaffSub EXCEPT !.exists = TRUE,
                                                !.is_billable = billable,
                                                !.billable_since = since,
                                                !.deactivated_at = deact],
                     period_start |-> ps,
                     period_end |-> PeriodEnd(ps),
                     days |-> 0]

\* staff_sub.calculate_active_days(period_start, period_end)
ProbeCalculate ==
    /\ probe.phase = "args"
    /\ probe' = [probe EXCEPT !.phase = "done",
                              !.days = CalculateActiveDays(probe.row,
                                           probe.period_start, probe.period_end)]
    /\ UNCHANGED <<clock, plan, bsub, ssub, methods, invoices, lineItems,
                   payments, gatewayLog, gen, pay, member>>

NextCalc == ProbeCalculate

SpecCalc == InitCalc /\ [][NextCalc]_vars

(***************************************************************************)
(* SpecRate: generate_monthly_invoice for one staff member, with the       *)
(* reference date, the plan's price and the staff row drawn from bounded   *)
(* sets.  The reference dates give periods of 31 days (December, reached   *)
(* from January), 28, 29 and 30 days.                                      *)
(***************************************************************************)
RateDates == {MkDate(2024, 1, 5), MkDate(2023, 3, 10), MkDate(2024, 3, 1),
              MkDate(2024, 5, 15)}

RatePrices == (0..MaxPrice) \cup {10000}

RateSince(period_start) ==
    {period_start - 1, period_start, period_start + 9, period_start + 19}

RateDeactivated(period_start) ==
    {NULL, period_start + 14, PeriodEnd(period_start)}

InitRate ==
    /\ clock \in RateDates
    /\ \E price \in RatePrices :
            plan = [is_active |-> TRUE, price_per_staff |-> price, trial_days |-> 14]
    /\ bsub = [NoBusinessSub EXCEPT !.exists = TRUE, !.status = "active"]
    /\ \E since \in RateSince(PeriodStart(clock)),
          deact \in RateDeactivated(PeriodStart(clock)) :
            ssub = [s \in Staff |->
                      IF s = "s1"
                      THEN [NoStaffSub EXCEPT !.exists = TRUE, !.is_active = deact = NULL,
                                              !.is_billable = TRUE,
                                              !.billable_since = since,
                                              !.deactivated_at = deact,
                                              !.trial_ends_at = since]
                      ELSE NoStaffSub]
    /\ member = [s \in Staff |-> IF s = "s1" THEN "active" ELSE "absent"]
    /\ methods = <<>>
    /\ invoices = <<>>
    /\ lineItems = {}
    /\ payments = <<>>
    /\ gatewayLog = <<>>
    /\ gen = [r \in Runners |-> IdleRun]
    /\ pay = [w \in Workers |-> IdleCall]
    /\ probe = NoProbe

NextRate ==
    \/ \E r \in Runner, e \in GenEntries : GenBegin(r, e)
    \/ \E r \in Runner : GenCommit(r)

SpecRate == InitRate /\ [][NextRate]_vars

(***************************************************************************)
(* SpecInvoice: every invoice generator of the subscriptions services on a *)
(* business with two staff rows drawn from the rows the lifecycle can      *)
(* produce; two runners of generate_monthly_invoice may overlap.           *)
(***************************************************************************)
InvoiceDates == {MkDate(2024, 3, 1), MkDate(2024, 5, 15)}

\* Rows of a staff member as the lifecycle leaves them: never registered, in
\* trial, billable from before or within the period, billable and then
\* deactivated, billable again after a deactivation.
InvoiceRows(period_start) ==
    LET registered == [NoStaffSub EXCEPT !.exists = TRUE, !.is_active = TRUE,
                                         !.trial_ends_at = period_start + 14]
        billable(since) == [registered EXCEPT !.is_billable = TRUE,
                                              !.billable_since = since,
                                              !.trial_ends_at = since]
    IN  {NoStaffSub,
         registered,
         billable(period_start - 1),
         billable(period_start + 9),
         [billable(period_start) EXCEPT !.is_active = FALSE,
                                        !.deactivated_at = period_start + 14],
         [billable(period_start + 19) EXCEPT !.deactivated_at = period_start + 14]}

InitInvoice ==
    /\ clock \in InvoiceDates
    /\ plan = [is_active |-> TRUE, price_per_staff |-> 10000, trial_days |-> 14]
    /\ \E status \in {"trial", "active", "past_due"} :
            bsub = [NoBusinessSub EXCEPT !.exists = TRUE, !.status = status,
                                         !.trial_ends_at = PeriodStart(clock) + 14]
    /\ ssub \in [Staff -> InvoiceRows(PeriodStart(clock))]
    /\ member = [s \in Staff |-> IF ssub[s].exists THEN "active" ELSE "absent"]
    /\ methods = <<>>
    /\ invoices = <<>>
    /\ lineItems = {}
    /\ payments = <<>>
    /\ gatewayLog = <<>>
    /\ gen = [r \in Runners |-> IdleRun]
    /\ pay = [w \in Workers |-> IdleCall]
    /\ probe = NoProbe

NextInvoice ==
    \/ \E r \in Runners, e \in GenEntries : GenBegin(r, e)
    \/ \E r \in Runners : GenCommit(r)
    \/ \E r \in Runners : GenFail(r)
    \/ LegacyGenerateMonthlyInvoices
    \/ GenerateProratedInvoice

SpecInvoice == InitInvoice /\ [][NextInvoice]_vars

(***************************************************************************)
(* SpecPay: payment of the February 2024 invoice of a business with one    *)
(* billable staff member, by two workers that may overlap, with the        *)
(* payment methods and the courtesy access drawn from the configurations   *)
(* that add_payment_method, enable_courtesy, disable_courtesy and the      *)
(* passing of time produce.                                                *)
(***************************************************************************)
PayDate == MkDate(2024, 3, 12)

Card(default) == [method_type |-> "card", is_default |-> default, is_active |-> TRUE]

CourtesyMethod(active) ==
    [method_type |-> "courtesy", is_default |-> active, is_active |-> active]

\* <<payment methods, has_courtesy_access, courtesy_until>>
PayConfigs ==
    {<<ms, FALSE, NULL>> : ms \in {<<>>, <<Card(TRUE)>>,
                                   <<Card(TRUE), CourtesyMethod(FALSE)>>}}
    \cup {<<ms, TRUE, until>> :
            ms \in {<<CourtesyMethod(TRUE)>>, <<Card(FALSE), CourtesyMethod(TRUE)>>},
            until \in {NULL, PayDate + CourtesyDays, PayDate - 1}}

InitPay ==
    /\ clock = PayDate
    /\ plan = [is_active |-> TRUE, price_per_staff |-> 10000, trial_days |-> 14]
    /\ ssub = [s \in Staff |->
                 IF s = "s1"
                 THEN [NoStaffSub EXCEPT !.exists = TRUE, !.is_active = TRUE,
                                         !.is_billable = TRUE,
                                         !.billable_since = MkDate(2024, 1, 20),
                                         !.trial_ends_at = MkDate(2024, 1, 20)]
                 ELSE NoStaffSub]
    /\ member = [s \in Staff |-> IF s = "s1" THEN "active" ELSE "absent"]
    /\ lineItems = LineItemsFor(1, [s \in {"s1"} |-> ssub[s]], MkDate(2024, 2, 1),
                                MkDate(2024, 2, 29), plan.price_per_staff)
    /\ invoices = <<MonthlyInvoice(MkDate(2024, 3, 1), MkDate(2024, 2, 1),
                                   MkDate(2024, 2, 29), plan.price_per_staff,
                                   lineItems)>>
    /\ \E config \in PayConfigs, status \in {"active", "past_due"} :
          /\ methods = config[1]
          /\ bsub = [NoBusinessSub EXCEPT !.exists = TRUE, !.status = status,
                                          !.trial_ends_at = MkDate(2024, 1, 20),
                                          !.has_courtesy_access = config[2],
                                          !.courtesy_until = config[3]]
    /\ payments = <<>>
    /\ gatewayLog = <<>>
    /\ gen = [r \in Runners |-> IdleRun]
    /\ pay = [w \in Workers |-> IdleCall]
    /\ probe = NoProbe

NextPay ==
    \/ \E w \in Workers, e \in PayEntries, i \in 1..MaxInvoices, m \in 0..MaxMethods :
          PayLoad(w, e, i, m)
    \/ \E w \in Workers : PayStart(w)
    \/ \E w \in Workers, answer \in {"accepted", "declined"} : PayFinish(w, answer)
    \/ \E days \in {0, CourtesyDays} : EnableCourtesy(days)
    \/ DisableCourtesy

SpecPay == InitPay /\ [][NextPay]_vars

(***************************************************************************)
(* SpecStatus: the status of the subscription of a business with an        *)
(* overdue invoice, under payments by one worker, the suspension sweeps,   *)
(* the trial sweep, booking requests, staff activation, courtesy access    *)
(* and cancellation by support staff.  The invoice is that of December     *)
(* 2023 or of February 2024, with the default max_payment_attempts or 1.   *)
(***************************************************************************)
StatusDate == MkDate(2024, 3, 20)

StatusPeriods == {<<MkDate(2023, 12, 1), MkDate(2023, 12, 31)>>,
                  <<MkDate(2024, 2, 1), MkDate(2024, 2, 29)>>}

\* <<payment methods, has_courtesy_access, courtesy_until>>
StatusConfigs ==
    {<<(<<Card(TRUE)>>), FALSE, NULL>>,
     <<(<<Card(FALSE), CourtesyMethod(TRUE)>>), TRUE, NULL>>,
     <<(<<Card(FALSE), CourtesyMethod(TRUE)>>), TRUE, StatusDate - 1>>}

Worker == {"w1"}

InitStatus ==
    /\ clock = StatusDate
    /\ plan = [is_active |-> TRUE, price_per_staff |-> 10000, trial_days |-> 14]
    /\ ssub = [s \in Staff |->
                 IF s = "s1"
                 THEN [NoStaffSub EXCEPT !.exists = TRUE, !.is_active = TRUE,
                                         !.is_billable = TRUE,
                                         !.billable_since = MkDate(2023, 12, 1),
                                         !.trial_ends_at = MkDate(2023, 12, 1)]
                 ELSE [NoStaffSub EXCEPT !.exists = TRUE, !.is_active = TRUE,
                                         !.trial_ends_at = MkDate(2024, 3, 15)]]
    /\ member = [s \in Staff |-> "active"]
    /\ \E period \in StatusPeriods, max \in {1, MaxPaymentAttempts} :
          /\ lineItems = LineItemsFor(1, [s \in {"s1"} |-> ssub[s]], period[1],
                                      period[2], plan.price_per_staff)
          /\ invoices = <<[MonthlyInvoice(period[2] + 1, period[1], period[2],
                                          plan.price_per_staff, lineItems)
                             EXCEPT !.max_payment_attempts = max]>>
    /\ \E config \in StatusConfigs,
          status \in {"trial", "active", "past_due", "suspended"} :
          /\ methods = config[1]
          /\ bsub = [NoBusinessSub EXCEPT
                        !.exists = TRUE, !.status = status,
                        !.trial_ends_at = MkDate(2023, 12, 1),
                        !.next_billing_date =
                            IF status = "trial" THEN NULL ELSE MkDate(2024, 3, 1),
                        !.has_courtesy_access = config[2],
                        !.courtesy_until = config[3]]
    /\ payments = <<>>
    /\ gatewayLog = <<>>
    /\ gen = [r \in Runners |-> IdleRun]
    /\ pay = [w \in Workers |-> IdleCall]
    /\ probe = NoProbe

NextStatus ==
    \/ \E w \in Worker, e \in PayEntries, i \in 1..MaxInvoices, m \in 0..MaxMethods :
          PayLoad(w, e, i, m)
    \/ \E w \in Worker : PayStart(w)
    \/ \E w \in Worker, answer \in {"accepted", "declined"} : PayFinish(w, answer)
    \/ SuspendUnpaidTask
    \/ SuspendUnpaidCommand
    \/ CheckAllTrials
    \/ CanReceiveBookings
    \/ \E s \in Staff : ActivateStaff(s)
    \/ ActivateAllStaff
    \/ \E days \in {0, CourtesyDays} : EnableCourtesy(days)
    \/ DisableCourtesy
    \/ AdminCancel

SpecStatus == InitStatus /\ [][NextStatus]_vars

(***************************************************************************)
(* SpecMethods: the payment methods of a business from an empty database,  *)
(* under add, delete and set-default requests of the owner and the         *)
(* enabling and disabling of courtesy access by support staff.             *)
(***************************************************************************)
NextMethods ==
    \/ \E d \in BOOLEAN : AddPaymentMethod(d)
    \/ \E k \in 1..MaxMethods : DeletePaymentMethod(k)
    \/ \E k \in 1..MaxMethods : SetDefaultPaymentMethod(k)
    \/ \E days \in {0, CourtesyDays} : EnableCourtesy(days)
    \/ DisableCourtesy
    \/ Tick

SpecMethods == Init /\ [][NextMethods]_vars

(***************************************************************************)
(* SpecStaff: the StaffSubscription row of a staff member from an empty    *)
(* database, under every operation that writes it: registration by the    *)
(* save receivers, the trial sweep, activation, activate-all, trial        *)
(* extension and deactivation.                                             *)
(***************************************************************************)
NextStaff ==
    \/ Tick
    \/ \E s \in Team, new \in {"active", "inactive", "absent"} : SaveStaffMember(s, new)
    \/ \E s \in Team : ActivateStaff(s)
    \/ ActivateAllStaff
    \/ \E s \in Team : DeactivateStaff(s)
    \/ \E s \in Team : ExtendStaffTrial(s)
    \/ CheckAllTrials
    \/ \E d \in BOOLEAN : AddPaymentMethod(d)

SpecStaff == Init /\ [][NextStaff]_vars

(***************************************************************************)
(* SpecGateway: payment of the February 2024 invoice by one worker, with   *)
(* every kind of answer of the gateway to a charge request.                *)
(***************************************************************************)
NextGateway ==
    \/ \E w \in Worker, e \in PayEntries, i \in 1..MaxInvoices, m \in 0..MaxMethods :
          PayLoad(w, e, i, m)
    \/ \E w \in Worker : PayStart(w)
    \/ \E w \in Worker, answer \in GatewayAnswers : PayFinish(w, answer)

SpecGateway == InitPay /\ [][NextGateway]_vars

(***************************************************************************)
(* SpecBooking: booking requests for a business, from an empty database or *)
(* from a subscription with an overdue invoice, between the operations     *)
(* that change the subscription status.                                    *)
(***************************************************************************)
InitBooking == Init \/ InitStatus

NextBooking ==
    \/ StartBooking
    \/ Tick
    \/ \E s \in Team, new \in {"active", "inactive", "absent"} : SaveStaffMember(s, new)
    \/ CheckAllTrials
    \/ SuspendUnpaidTask
    \/ \E days \in {0, CourtesyDays} : EnableCourtesy(days)
    \/ DisableCourtesy
    \/ AdminCancel

SpecBooking == InitBooking /\ [][NextBooking]_vars

(***************************************************************************)
(* SpecJob: the daily job process_pending_payments on a business with a    *)
(* due pending invoice, with retry_failed_payment calls by support staff   *)
(* in between.  The scheduler runs the job every day (JobLoad is weakly    *)
(* fair) and a call that has begun runs to its end: the gateway answers or *)
(* the request times out after 30 s (CallEnds is weakly fair).             *)
(***************************************************************************)
\* process_all_pending_invoices selects invoice i and loads it.
JobLoad == \E w \in Worker, i \in 1..MaxInvoices : PayLoad(w, "job", i, NULL)

\* A caller loads invoice i for retry_failed_payment.
RetryLoad == \E w \in Worker, i \in 1..MaxInvoices : PayLoad(w, "retry", i, NULL)

\* A call that has begun goes on to its end.
CallEnds ==
    \E w \in Worker : \/ PayStart(w)
                      \/ \E answer \in {"accepted", "declined"} : PayFinish(w, answer)

NextJob == JobLoad \/ RetryLoad \/ CallEnds

SpecJob ==
    InitPay /\ [][NextJob]_vars /\ WF_vars(JobLoad) /\ WF_vars(CallEnds)

(***************************************************************************)
(* Properties                                                              *)
(***************************************************************************)
\* The calendar days of [period_start, period_end] that lie in the row's
\* billable interval [billable_since, deactivated_at or unbounded].
BillableDaysOfPeriod(row, period_start, period_end) ==
    {d \in period_start..period_end :
        /\ row.billable_since <= d
        /\ (row.deactivated_at = NULL \/ d <= row.deactivated_at)}

\* A row with at least one billable day in the period.
HasBillableDay(row, period_start, period_end) ==
    /\ row.exists
    /\ row.is_billable
    /\ row.billable_since # NULL
    /\ BillableDaysOfPeriod(row, period_start, period_end) # {}

\* The invoices of the billing period that a run on the given date bills.
InvoicesOfPeriod(today) ==
    {i \in 1..Len(invoices) :
        /\ invoices[i].period_start = PeriodStart(today)
        /\ invoices[i].period_end = PeriodEnd(PeriodStart(today))}

C2_OneInvoicePerPeriod ==
    \A i, j \in 1..Len(invoices) :
        ( /\ invoices[i].period_start = invoices[j].period_start
          /\ invoices[i].period_end = invoices[j].period_end ) => i = j

\* The succeeded Payments of an invoice.
SucceededPayments(i) ==
    {k \in 1..Len(payments) : payments[k].invoice = i /\ payments[k].status = "succeeded"}

\* C3: for every invoice at most one Payment with status 'succeeded' exists,
\* whatever the sequence and interleaving of pay requests, job and command
\* runs, process_single_invoice and retry_failed_payment on it.
C3_AtMostOneSucceededPayment ==
    \A i \in 1..Len(invoices) : Cardinality(SucceededPayments(i)) <= 1

\* The requests sent to the gateway for an invoice, oldest first.
ChargesOf(i) ==
    LET OfInvoice(e) == e.invoice = i IN SelectSeq(gatewayLog, OfInvoice)

\* The last max_payment_attempts gateway charges of the invoice all failed.
AttemptsExhausted(i) ==
    LET charges == ChargesOf(i)
        max == invoices[i].max_payment_attempts
    IN  /\ Len(charges) >= max
        /\ \A k \in (Len(charges) - max + 1)..Len(charges) :
              charges[k].outcome \notin {"sent", "accepted"}

\* The payment method a loaded call will pay with.
ChosenMethod(w) ==
    IF pay[w].method # NULL THEN pay[w].method ELSE DefaultMethod(methods)

\* C4: once max_payment_attempts consecutive gateway charges of an invoice
\* have failed the invoice is 'failed', and a further process_invoice_payment
\* call on it with a card returns failure with a failed Payment and sends
\* nothing to the gateway, unless the attempts are reset first.
C4_ExhaustedAttemptsFailInvoice ==
    [][/\ \A i \in 1..Len(invoices') :
             AttemptsExhausted(i)' => invoices'[i].status = "failed"
       /\ \A w \in Workers :
             ( /\ pay[w].pc = "loaded"
               /\ pay'[w] # pay[w]
               /\ pay[w].entry # "retry"
               /\ AttemptsExhausted(pay[w].invoice)
               /\ ChosenMethod(w) # NULL
               /\ methods[ChosenMethod(w)].method_type = "card" )
             => /\ gatewayLog' = gatewayLog
                /\ pay'[w].result = "failure"
                /\ Len(payments') = Len(payments) + 1
                /\ payments'[Len(payments')].status = "failed"]_vars

\* The line items of an invoice.
ItemsOf(i) == {it \in lineItems : it.invoice = i}

\* C5: for every generated Invoice the subtotals of its line items add up to
\* invoice.subtotal, invoice.total equals invoice.subtotal and staff_count is
\* the number of its line items.
C5_InvoiceTotalsMatchLines ==
    \A i \in 1..Len(invoices) :
        /\ SumSubtotals(ItemsOf(i)) = invoices[i].subtotal
        /\ invoices[i].total = invoices[i].subtotal
        /\ invoices[i].staff_count = Cardinality(ItemsOf(i))

\* C6: calculate_active_days returns 0 for a row that is not billable or has
\* no billable_since, and otherwise the number of calendar days common to
\* the billable interval and the period (0 when they do not meet); day 10 of
\* a 30-day month without deactivation gives 21, and billable before a
\* 31-day period with deactivation on day 15 gives 15.
C6_ActiveDaysAreIntersection ==
    probe.phase = "done" =>
        /\ probe.days =
             IF ~probe.row.is_billable \/ probe.row.billable_since = NULL
             THEN 0
             ELSE Cardinality(BillableDaysOfPeriod(probe.row, probe.period_start,
                                                   probe.period_end))
        /\ ( /\ probe.row.is_billable
             /\ DaysInPeriod(probe.period_start) = 30
             /\ probe.row.billable_since = probe.period_start + 9
             /\ probe.row.deactivated_at = NULL ) => probe.days = 21
        /\ ( /\ probe.row.is_billable
             /\ DaysInPeriod(probe.period_start) = 31
             /\ probe.row.billable_since # NULL
             /\ probe.row.billable_since < probe.period_start
             /\ probe.row.deactivated_at = probe.period_start + 14 ) => probe.days = 15

\* A call for activation on day 10 of a 30-day month has returned.
C6_Witness ==
    /\ probe.phase = "done"
    /\ probe.row.is_billable
    /\ DaysInPeriod(probe.period_start) = 30
    /\ probe.row.billable_since = probe.period_start + 9
    /\ probe.row.deactivated_at = NULL
    /\ probe.days = 21

\* q is num/den rounded half-up to an integer (num >= 0, den > 0).
IsHalfUpOf(q, num, den) ==
    /\ (2 * q - 1) * den <= 2 * num
    /\ 2 * num < (2 * q + 1) * den

BillableWholePeriod(row, period_start, period_end) ==
    /\ row.exists
    /\ row.is_billable
    /\ row.billable_since # NULL
    /\ row.billable_since <= period_start
    /\ (row.deactivated_at = NULL \/ row.deactivated_at >= period_end)

C9_NoInvoiceWithoutBillableDays ==
    [][\A r \in Runners :
          /\ ( /\ gen[r].pc = "idle"
               /\ gen'[r] # gen[r]
               /\ \A s \in Staff :
                     ~HasBillableDay(ssub[s], PeriodStart(clock),
                                     PeriodEnd(PeriodStart(clock))) )
             => /\ invoices' = invoices
                /\ lineItems' = lineItems
                /\ \/ gen'[r].pc = "idle" /\ gen'[r].result = NULL
                   \/ /\ gen'[r].pc = "open"
                      /\ gen'[r].today = clock
                      /\ \A s \in DOMAIN gen'[r].staff_subs :
                            ~HasBillableDay(gen'[r].staff_subs[s], PeriodStart(clock),
                                            PeriodEnd(PeriodStart(clock)))
          /\ ( /\ gen[r].pc = "open"
               /\ gen'[r] # gen[r]
               /\ \A s \in DOMAIN gen[r].staff_subs :
                     ~HasBillableDay(gen[r].staff_subs[s], PeriodStart(gen[r].today),
                                     PeriodEnd(PeriodStart(gen[r].today))) )
             => /\ gen'[r].pc = "idle"
                /\ gen'[r].result = NULL
                /\ invoices' = invoices
                /\ lineItems' = lineItems]_vars

\* A run found a billable row without a day in the period, deleted its
\* invoice shell and returned None.
C9_Witness ==
    /\ gen["r1"].path = "empty"
    /\ gen["r1"].result = NULL
    /\ \E s \in Staff : /\ ssub[s].is_billable
                        /\ ssub[s].deactivated_at # NULL
                        /\ ssub[s].billable_since > ssub[s].deactivated_at

\* C10: a payment with a courtesy PaymentMethod sends nothing to the
\* gateway; with courtesy access active (has_courtesy_access, and
\* courtesy_until null or not past) it records a succeeded Payment and the
\* invoice becomes 'paid', otherwise it records a failed Payment and does
\* not mark the invoice paid.
C10_CourtesyBypassesGateway ==
    [][\A w \in Workers :
          ( /\ pay[w].pc = "loaded"
            /\ pay'[w] # pay[w]
            /\ ~(pay[w].entry = "retry" /\ pay[w].copy.row.status = "paid")
            /\ ChosenMethod(w) # NULL
            /\ methods[ChosenMethod(w)].method_type = "courtesy" )
          => LET i == pay[w].invoice
                 made == payments'[Len(payments')]
             IN  /\ gatewayLog' = gatewayLog
                 /\ Len(payments') = Len(payments) + 1
                 /\ made.invoice = i
                 /\ made.payment_method = ChosenMethod(w)
                 /\ pay'[w].pc = "idle"
                 /\ IF /\ bsub.has_courtesy_access
                       /\ (bsub.courtesy_until = NULL \/ clock <= bsub.courtesy_until)
                    THEN /\ made.status = "succeeded"
                         /\ invoices'[i].status = "paid"
                         /\ pay'[w].result = "success"
                    ELSE /\ made.status = "failed"
                         /\ pay'[w].result = "failure"
                         /\ (invoices'[i].status # "paid" \/ invoices'[i] = invoices[i])]_vars

\* The invoice was refused with expired courtesy access and then paid with
\* the courtesy method once access was active, and the gateway saw nothing.
C10_Witness ==
    /\ gatewayLog = <<>>
    /\ \E k \in 1..Len(payments) :
          /\ payments[k].status = "failed"
          /\ payments[k].payment_method # NULL
          /\ methods[payments[k].payment_method].method_type = "courtesy"
    /\ \E k \in 1..Len(payments) :
          /\ payments[k].status = "succeeded"
          /\ payments[k].payment_method # NULL
          /\ methods[payments[k].payment_method].method_type = "courtesy"
          /\ invoices[payments[k].invoice].status = "paid"

\* The first day of the month that follows date d: the earliest day-of-month
\* 1 after d.
FirstDayAfter(d) ==
    CHOOSE f \in (d + 1)..(d + 31) :
        DayOf(f) = 1 /\ \A e \in (d + 1)..(f - 1) : DayOf(e) # 1

\* The call of worker w returns success in this step.
ReturnsSuccess(w) == pay[w].result # "success" /\ pay'[w].result = "success"

\* C11: every process_invoice_payment call that returns success, with a card
\* or with the courtesy method, leaves the invoice 'paid' with paid_at and
\* payment_method_used set and the subscription 'active' (also from
\* 'past_due' and 'suspended'), with last_payment_amount equal to the
\* invoice total and next_billing_date the first day of the month after the
\* invoice's period_end (1 January of the next year after December).
C11_SuccessSettlesInvoiceAndSubscription ==
    [][\A w \in Workers :
         ReturnsSuccess(w) =>
            LET row == invoices'[pay'[w].invoice]
            IN  /\ row.status = "paid"
                /\ row.paid_at # NULL
                /\ row.payment_method_used # NULL
                /\ bsub'.status = "active"
                /\ bsub'.last_payment_amount = row.total
                /\ bsub'.next_billing_date = FirstDayAfter(row.period_end)]_vars

\* The December invoice has been paid with a card that the gateway accepted:
\* the business is active and billed next on 1 January.
C11_Witness ==
    /\ pay["w1"].result = "success"
    /\ invoices[1].period_end = MkDate(2023, 12, 31)
    /\ invoices[1].status = "paid"
    /\ methods[invoices[1].payment_method_used].method_type = "card"
    /\ bsub.status = "active"
    /\ bsub.next_billing_date = MkDate(2024, 1, 1)
    /\ \E k \in 1..Len(gatewayLog) : gatewayLog[k].outcome = "accepted"

\* C12: once an Invoice is 'paid' no later operation changes its status,
\* total, subtotal, paid_at or line items.
C12_PaidInvoiceIsImmutable ==
    [][\A i \in 1..Len(invoices) :
         invoices[i].status = "paid" =>
            /\ i <= Len(invoices')
            /\ invoices'[i].status = "paid"
            /\ invoices'[i].total = invoices[i].total
            /\ invoices'[i].subtotal = invoices[i].subtotal
            /\ invoices'[i].paid_at = invoices[i].paid_at
            /\ ItemsOf(i)' = ItemsOf(i)]_vars

\* The run of runner r fails in this step, after it created its shell.
FailsAfterShell(r) == gen[r].pc = "open" /\ gen'[r].path = "failed"

\* C13: generate_monthly_invoice is all-or-nothing per business: a run that
\* fails after the invoice shell was created leaves no Invoice and no
\* InvoiceLineItem behind, and the run that follows it is not stopped by an
\* invoice of the failed run: if it finds an invoice of the period, that
\* invoice was written by a run that completed.
C13_FailedRunLeavesNothing ==
    [][\A r \in Runners :
         /\ FailsAfterShell(r) => invoices' = invoices /\ lineItems' = lineItems
         /\ (gen[r].path = "failed" /\ gen'[r].path = "exists") =>
               \A i \in InvoicesOfPeriod(Today) :
                   invoices[i].staff_count > 0]_vars

\* A run has failed after its shell and the database holds no invoice and
\* no line item, while the business has a staff member to bill.
C13_Witness ==
    /\ gen["r1"].path = "failed"
    /\ invoices = <<>>
    /\ lineItems = {}
    /\ \E s \in Staff : HasBillableDay(ssub[s], PeriodStart(Today), PeriodEnd(PeriodStart(Today)))

\* The first day of the month of date d.
MonthStart(d) == MkDate(YearOf(d), MonthOf(d), 1)

\* The billing periods that are not invoiced yet on the given date: the
\* running month and, while its invoice is not generated, the month before.
OpenPeriods(today) ==
    {ps \in {PeriodStart(today), MonthStart(today)} :
        ~\E i \in 1..Len(invoices) : /\ invoices[i].period_start = ps
                                     /\ invoices[i].period_end = PeriodEnd(ps)}

\* Staff member s, whose billable interval was closed by a deactivation, is
\* reactivated in this step.
Reactivated(s) ==
    /\ ssub[s].exists /\ ssub[s].is_billable
    /\ ssub[s].billable_since # NULL /\ ssub[s].deactivated_at # NULL
    /\ ssub'[s].is_active /\ ssub'[s].is_billable /\ ssub'[s].deactivated_at = NULL

\* C14: when a staff member is deactivated and reactivated before the
\* invoice of the first interval's period is generated, the first interval
\* is kept: for every period not invoiced yet the days the row will be billed
\* for are those of the first interval together with those from the
\* reactivation on.
C14_ReactivationKeepsFirstInterval ==
    [][\A s \in Staff :
         Reactivated(s) =>
            \A ps \in OpenPeriods(Today) :
               CalculateActiveDays(ssub'[s], ps, PeriodEnd(ps)) =
                  Cardinality(BillableDaysOfPeriod(ssub[s], ps, PeriodEnd(ps))
                              \cup {d \in ps..PeriodEnd(ps) : d >= Today})]_vars

\* C15: is_billable goes from false to true only through an activation by
\* the owner of a business that has an active PaymentMethod; the daily trial
\* sweep never sets is_billable or billable_since.  (An activation by the
\* owner is the only step that moves trial_ends_at a year ahead.)
C15_BillableOnlyByActivationWithMethod ==
    [][\A s \in Staff :
         (~ssub[s].is_billable /\ ssub'[s].is_billable) =>
            /\ HasActivePaymentMethod(methods)
            /\ ssub'[s].trial_ends_at = Today + 365]_vars

\* The employment of billable staff member s in b1 ends in this step: the
\* employment status leaves 'active' or the member leaves the business.
LeavesActive(s) ==
    /\ member[s] = "active" /\ member'[s] # "active"
    /\ ssub[s].exists /\ ssub[s].is_billable
    /\ ssub[s].billable_since # NULL /\ ssub[s].deactivated_at = NULL

\* C16: the deactivation run when a staff member's employment status leaves
\* 'active' or the member changes business closes the billable interval at
\* the deactivation date: the invoice of that month bills the member up to
\* that date only, and the month after it has no day to bill.
C16_DeactivationClosesInterval ==
    [][\A s \in Staff :
         LeavesActive(s) =>
            LET ps == MonthStart(Today)
                next == PeriodEnd(ps) + 1
            IN  /\ CalculateActiveDays(ssub'[s], ps, PeriodEnd(ps)) =
                      Cardinality({d \in ps..PeriodEnd(ps) :
                                      ssub[s].billable_since <= d /\ d <= Today})
                /\ CalculateActiveDays(ssub'[s], next, PeriodEnd(next)) = 0]_vars

\* C17: 'cancelled' is terminal: no payment, staff activation, courtesy
\* enablement, sweep or booking request moves a cancelled subscription to
\* another status.
C17_CancelledIsTerminal ==
    [][bsub.status = "cancelled" => bsub'.status = "cancelled"]_vars

\* C18: while courtesy access is active no automated path (the suspend_unpaid
\* command, the suspend_unpaid_subscriptions task, check_and_update_status
\* through a booking request or the trial sweep) sets the status 'suspended'.
C18_NoSuspensionUnderCourtesy ==
    [][(bsub.exists /\ IsCourtesyActive(bsub, Today) /\ bsub.status # "suspended")
          => bsub'.status # "suspended"]_vars

\* The gateway declines the card charge of worker w in this step.
ChargeDeclined(w) == pay[w].pc = "charging" /\ pay'[w].result = "failure"

\* C19: when a declined card charge brings the invoice's payment_attempts to
\* max_payment_attempts the invoice becomes 'failed' and the subscription
\* 'past_due', unless it is 'suspended', which it stays; a declined charge
\* that does not exhaust the attempts leaves both statuses unchanged.
C19_ExhaustingFailureSetsPastDue ==
    [][\A w \in Workers :
         ChargeDeclined(w) =>
            LET i == pay[w].invoice
                copy == pay[w].copy
            IN  IF copy.payment_attempts >= copy.row.max_payment_attempts
                THEN /\ invoices'[i].status = "failed"
                     /\ bsub'.status = IF bsub.status = "suspended"
                                       THEN "suspended" ELSE "past_due"
                ELSE /\ invoices'[i].status = invoices[i].status
                     /\ bsub'.status = bsub.status]_vars

\* The active payment methods marked as default.
ActiveDefaults == {k \in 1..Len(methods) : methods[k].is_active /\ methods[k].is_default}

\* C20: after any sequence of add_payment_method, delete_payment_method,
\* set_default_payment_method, enable_courtesy and disable_courtesy, a
\* business with at least one active PaymentMethod has exactly one active
\* method with is_default = true.
C20_ExactlyOneActiveDefault ==
    HasActivePaymentMethod(methods) => Cardinality(ActiveDefaults) = 1

\* C21: every StaffSubscription with is_billable = true has a non-null
\* billable_since, across registration and re-registration, the trial sweep,
\* activation, activate-all, trial extension and deactivation.
C21_BillableHasBillableSince ==
    \A s \in Staff :
        (ssub[s].exists /\ ssub[s].is_billable) => ssub[s].billable_since # NULL

\* A row whose trial has ended is billable and dated that day, as the trial
\* sweep leaves it.
C21_Witness ==
    \E s \in Staff :
        /\ ssub[s].exists /\ ssub[s].is_billable
        /\ ssub[s].billable_since = Today
        /\ ssub[s].billable_since > StartDate
        /\ ssub[s].trial_ends_at <= Today

\* The gateway fails the charge request of worker w in this step, with the
\* given kind of failure.
GatewayFails(w, answer) ==
    /\ pay[w].pc = "charging"
    /\ pay'[w].pc = "idle"
    /\ \E k \in 1..Len(gatewayLog) :
          /\ gatewayLog[k].payment = pay[w].payment
          /\ gatewayLog[k].outcome = "sent"
          /\ gatewayLog'[k].outcome = answer

BookingAnswered == probe' # probe /\ probe'.phase = "booking"

\* C23: can_receive_bookings returns (true, '') exactly when the status
\* left by its status check is 'trial' or 'active'; for 'past_due',
\* 'suspended' and 'cancelled' it returns false with a reason of its own; a
\* business without a subscription gets one in 'trial' and is allowed.
C23_BookingsFollowStatus ==
    [][BookingAnswered =>
          /\ bsub'.exists
          /\ probe'.can_book <=> bsub'.status \in {"trial", "active"}
          /\ probe'.can_book => probe'.error_msg = ""
          /\ bsub'.status = "past_due" => probe'.error_msg = "pago pendiente"
          /\ bsub'.status = "suspended" =>
                probe'.error_msg = "suspendida por falta de pago"
          /\ bsub'.status = "cancelled" => probe'.error_msg = "cancelada"
          /\ ~bsub.exists => bsub'.status = "trial" /\ probe'.can_book]_vars

\* A booking request was refused because the status check moved the
\* subscription out of its ended trial to 'past_due'.
C23_Witness ==
    /\ probe.phase = "booking"
    /\ ~probe.can_book
    /\ probe.error_msg = "pago pendiente"
    /\ bsub.status = "past_due"
    /\ bsub.last_payment_date = NULL

\* Run r of generate_monthly_invoice commits an invoice in this step.
CreatesInvoice(r) ==
    /\ gen[r].pc = "open"
    /\ gen'[r].path = "created"
    /\ Len(invoices') = Len(invoices) + 1

\* The last day of the month before the month of d.
LastDayBefore(d) == MkDate(YearOf(d), MonthOf(d), 1) - 1

C25_CourtesyMethodIsDefaultWhileActive ==
    (bsub.exists /\ IsCourtesyActive(bsub, Today))
    => \E k \in 1..Len(methods) :
          /\ methods[k].method_type = "courtesy"
          /\ methods[k].is_active
          /\ methods[k].is_default

\* Call w sends a charge request to the gateway in this step.
SendsCharge(w) ==
    /\ pay[w].pc = "loaded"
    /\ pay'[w].pc = "charging"
    /\ Len(gatewayLog') = Len(gatewayLog) + 1

\* C26: process_invoice_payment persists the incremented payment_attempts
\* before it sends the charge to the gateway: when the request leaves, the
\* stored invoice carries the count of the call, so that a call that loads
\* the invoice afterwards (after a crash, or overlapping) counts on from it
\* and the requests since the last reset never exceed max_payment_attempts.
C26_AttemptCountPersistedBeforeCharge ==
    [][\A w \in Workers :
          SendsCharge(w) =>
             LET reloaded == LoadedInvoice(pay[w].invoice)'
             IN  /\ reloaded.has_payment_attempts
                 /\ reloaded.payment_attempts = pay'[w].copy.payment_attempts
                 /\ reloaded.payment_attempts >= 1]_vars

\* C27: after the owner's deactivate action on an active, billable
\* StaffSubscription has completed, with the StaffMember save it performs
\* and the receivers that save triggers, the row has is_active false and
\* deactivated_at = today with is_billable and billable_since unchanged, so
\* that the month's invoice bills the member from billable_since (or the
\* first of the month) up to today only.
C27_OwnerDeactivationKeepsBillableInterval ==
    [][\A s \in Staff :
          ( /\ ssub[s].exists /\ ssub[s].is_active /\ ssub[s].is_billable
            /\ ssub[s].billable_since # NULL
            /\ DeactivateStaff(s) )
          => LET ps == MonthStart(Today)
             IN  /\ ~ssub'[s].is_active
                 /\ ssub'[s].deactivated_at = Today
                 /\ ssub'[s].is_billable
                 /\ ssub'[s].billable_since = ssub[s].billable_since
                 /\ CalculateActiveDays(ssub'[s], ps, PeriodEnd(ps)) =
                       Cardinality({d \in ps..PeriodEnd(ps) :
                                       ssub[s].billable_since <= d /\ d <= Today})]_vars

\* C28: the suspension sweep (task or command) and check_and_update_status
\* move a subscription to 'suspended' only when its status was 'past_due'
\* and the business has a pending or failed invoice overdue by more than the
\* 7 days of grace; a 'trial' or 'active' subscription is never moved
\* directly to 'suspended'.
C28_SuspendedOnlyFromPastDue ==
    [][(bsub.exists /\ bsub.status # "suspended" /\ bsub'.status = "suspended")
          => /\ bsub.status = "past_due"
             /\ HasOverdueInvoice(invoices, Today)]_vars

\* A step returns a subscription in 'past_due' or 'suspended' to 'active'.
ReturnsToActive ==
    /\ bsub.exists
    /\ bsub.status \in {"past_due", "suspended"}
    /\ bsub'.status = "active"

\* C29: a subscription in 'past_due' or 'suspended' returns to 'active' only
\* as the result of a successful invoice payment; activating staff (single
\* or activate-all), deactivating staff or extending a trial never changes a
\* 'past_due' or 'suspended' status.
C29_ActiveAgainOnlyByPayment ==
    [][ReturnsToActive =>
          \E w \in Workers : /\ pay[w].pc # "idle"
                             /\ pay'[w].pc = "idle"
                             /\ pay'[w].result = "success"]_vars

\* The default payment method of the business is an active card.
DefaultIsCard ==
    /\ DefaultMethod(methods) # NULL
    /\ methods[DefaultMethod(methods)].method_type = "card"

\* C30: if a pending invoice is due and its business keeps an active default
\* card, the repeated runs of the daily pending-payment job eventually bring
\* the invoice to 'paid' or 'failed' (as long as the table of payments has
\* room for the Payment rows of the runs).
C30_JobEventuallySettlesInvoice ==
    (DefaultIsCard /\ invoices[1].status = "pending" /\ invoices[1].due_date <= Today)
    => <>(\/ invoices[1].status \in {"paid", "failed"}
          \/ Len(payments) >= MaxPayments)

====
